---- MODULE Spec2Model ----
(***************************************************************************)
(* Model of Pallet::do_decrease_take                                       *)
(* (pallets/subtensor/src/staking/decrease_take.rs): the decrease path of  *)
(* a delegate's take, over the Delegates storage map, the MinTake storage  *)
(* value and the event log.                                                *)
(***************************************************************************)
EXTENDS Integers, Sequences, FiniteSets, TLC

(* ---------------- bounds of the model ---------------- *)
\* small take values 0..MaxTake stand for the low end of the u16 range
MaxTake == 2
\* number of do_decrease_take dispatches in one behaviour
MaxCalls == 3

(* ---------------- program constants ---------------- *)
\* take is a u16 (line 43)
U16Max == 65535
\* "InitialDefaultTake (18%)" named by the comment on line 63
InitialDefaultTake == (18 * U16Max) \div 100

(* ---------------- value domains ---------------- *)
Coldkeys == {"c1", "c2"}
Hotkeys == {"h1", "h2"}
\* an origin is a signed coldkey or an unsigned origin (None / Root)
NoneOrigin == "none"
Origins == Coldkeys \cup {NoneOrigin}
\* the u16 values the model draws takes from
TakeValues == (0..MaxTake) \cup {InitialDefaultTake, U16Max}
\* Delegates::try_get(hotkey) is Err(()) when the key is absent
NoTake == -1
\* a hotkey that is not registered has no owner
NoOwner == "no_owner"

VARIABLES
  Delegates,  \* storage map hotkey -> take (NoTake: no entry)
  MinTake,    \* storage value MinTake
  Owner,      \* registration / ownership facts read by do_take_checks
  events,     \* deposited events, oldest first
  writes,     \* number of Delegates::insert calls performed
  oks,        \* number of dispatches that returned Ok(())
  calls,      \* number of dispatches
  last,       \* the last operation: its arguments and its result
  \* two requests executed step by step (statement by statement)
  submitted,  \* the two requests, their hotkey and the take it started with
  pc,         \* request -> the statement it is at
  cur,        \* request -> the current_take it read on line 59
  res,        \* request -> its result, "pending" until it returns
  running     \* the request the ledger is executing, "idle" when none

stepvars == <<submitted, pc, cur, res, running>>
vars == <<Delegates, MinTake, Owner, events, writes, oks, calls, last,
          submitted, pc, cur, res, running>>

(* ---------------- results ---------------- *)
Ok == "Ok"
BadOrigin == "BadOrigin"
NotRegistered == "NotRegistered"
NonAssociatedColdKey == "NonAssociatedColdKey"
DelegateTakeTooLow == "DelegateTakeTooLow"

\* the error of the ensure! on line 60 and the error of the ensure! on line 65
NotDecreasingError == DelegateTakeTooLow
BelowMinimumError == DelegateTakeTooLow

(* ---------------- the steps of do_decrease_take ---------------- *)
\* line 46: ensure_signed(origin)?
ensure_signed(origin) ==
  IF origin \in Coldkeys THEN Ok ELSE BadOrigin

\* line 56: Self::do_take_checks(&coldkey, &hotkey)? -- the hotkey is
\* registered, and the coldkey owns it
do_take_checks(coldkey, hotkey) ==
  IF Owner[hotkey] = NoOwner THEN NotRegistered
  ELSE IF Owner[hotkey] # coldkey THEN NonAssociatedColdKey
  ELSE Ok

\* mutant: the comparison on line 60 written as <=
decrease_check_nonstrict(hotkey, take) ==
  LET current_take == Delegates[hotkey] IN
  IF current_take # NoTake /\ ~(take <= current_take) THEN NotDecreasingError
  ELSE Ok

\* mutant: a missing record is treated as a failed comparison
decrease_check_requires_record(hotkey, take) ==
  LET current_take == Delegates[hotkey] IN
  IF current_take = NoTake \/ ~(take < current_take) THEN NotDecreasingError
  ELSE Ok

\* mutant: the comparison on line 60 written the wrong way round
decrease_check_reversed(hotkey, take) ==
  LET current_take == Delegates[hotkey] IN
  IF current_take # NoTake /\ ~(take > current_take) THEN NotDecreasingError
  ELSE Ok

\* lines 59-61: if let Ok(current_take) = try_get(&hotkey) { ensure!(take < current_take) }
decrease_check(hotkey, take) ==
  LET current_take == Delegates[hotkey] IN
  IF current_take # NoTake /\ ~(take < current_take) THEN NotDecreasingError
  ELSE Ok

\* mutant: the ensure! on line 65 left out
floor_check_skipped(take) == Ok

\* mutant: the comparison on line 65 written the wrong way round
floor_check_inverted(take) ==
  LET min_take == MinTake IN
  IF take <= min_take THEN Ok ELSE BelowMinimumError

\* lines 64-65: ensure!(take >= MinTake::get())
floor_check(take) ==
  LET min_take == MinTake IN
  IF take >= min_take THEN Ok ELSE BelowMinimumError

\* mutant: the floor check (3.1) placed before the decrease check (3)
Outcome_floor_first(origin, hotkey, take) ==
  IF ensure_signed(origin) # Ok
    THEN [result |-> ensure_signed(origin), check |-> "ensure_signed"]
  ELSE IF do_take_checks(origin, hotkey) # Ok
    THEN [result |-> do_take_checks(origin, hotkey), check |-> "do_take_checks"]
  ELSE IF floor_check(take) # Ok
    THEN [result |-> floor_check(take), check |-> "floor_check"]
  ELSE IF decrease_check(hotkey, take) # Ok
    THEN [result |-> decrease_check(hotkey, take), check |-> "decrease_check"]
  ELSE [result |-> Ok, check |-> "none"]

\* lines 46-65: the checks in program order; the first failing one returns
Outcome(origin, hotkey, take) ==
  IF ensure_signed(origin) # Ok
    THEN [result |-> ensure_signed(origin), check |-> "ensure_signed"]
  ELSE IF do_take_checks(origin, hotkey) # Ok
    THEN [result |-> do_take_checks(origin, hotkey), check |-> "do_take_checks"]
  ELSE IF decrease_check(hotkey, take) # Ok
    THEN [result |-> decrease_check(hotkey, take), check |-> "decrease_check"]
  ELSE IF floor_check(take) # Ok
    THEN [result |-> floor_check(take), check |-> "floor_check"]
  ELSE [result |-> Ok, check |-> "none"]

\* mutant: the insert of line 68 placed before the floor check of line 65
StorageWrites_before_floor(out, hotkey, take) ==
  IF out.check \in {"none", "floor_check"}
    THEN <<[key |-> hotkey, value |-> take]>> ELSE <<>>

\* mutant: the new take written to every hotkey of the same owner
StorageWrites_all_owned(out, hotkey, take) ==
  IF out.result = Ok
    THEN LET hs == {h \in Hotkeys : Owner[h] = Owner[hotkey]} \ {hotkey}
             other == CHOOSE h \in hs \cup {hotkey} : hs # {} => h \in hs
         IN IF hs = {} THEN <<[key |-> hotkey, value |-> take]>>
            ELSE <<[key |-> hotkey, value |-> take], [key |-> other, value |-> take]>>
    ELSE <<>>

\* line 68: the storage writes of one dispatch, reached only when every check
\* passed: a single Delegates::insert(hotkey, take)
StorageWrites(out, hotkey, take) ==
  IF out.result = Ok THEN <<[key |-> hotkey, value |-> take]>> ELSE <<>>

\* mutant: a take of zero removes the entry instead of storing it
RECURSIVE insert_or_remove(_, _)
insert_or_remove(map, ws) ==
  IF ws = <<>> THEN map
  ELSE insert_or_remove(
         [map EXCEPT ![Head(ws).key] =
            IF Head(ws).value = 0 THEN NoTake ELSE Head(ws).value],
         Tail(ws))

\* StorageMap::insert: the value of the key is overwritten
RECURSIVE insert(_, _)
insert(map, ws) ==
  IF ws = <<>> THEN map
  ELSE insert([map EXCEPT ![Head(ws).key] = Head(ws).value], Tail(ws))

\* mutant: the event carries the take read on line 59, not the new one
deposit_event_stale_take(out, coldkey, hotkey, take) ==
  IF out.result = Ok
    THEN <<[coldkey |-> coldkey, hotkey |-> hotkey, take |-> Delegates[hotkey]]>>
    ELSE <<>>

\* mutant: the event deposited before the checks, whatever their result
deposit_event_always(out, coldkey, hotkey, take) ==
  <<[coldkey |-> coldkey, hotkey |-> hotkey, take |-> take]>>

\* line 77: deposit_event(Event::TakeDecreased(coldkey, hotkey, take))
deposit_event(out, coldkey, hotkey, take) ==
  IF out.result = Ok
    THEN <<[coldkey |-> coldkey, hotkey |-> hotkey, take |-> take]>>
    ELSE <<>>

(* ---------------- actions ---------------- *)
NoOp == [op |-> "init", origin |-> NoneOrigin, hotkey |-> "h1", take |-> 0,
         before |-> NoTake, result |-> Ok, check |-> "none", repeats |-> "no"]

\* the result of the previous operation when it was the same request
\* (same origin, hotkey and take) with no operation in between, else "no"
RepeatOf(origin, hotkey, take) ==
  IF /\ last.op = "decrease_take" /\ last.origin = origin
     /\ last.hotkey = hotkey /\ last.take = take
    THEN last.result ELSE "no"

\* the two concurrently submitted requests
Requests == {"r1", "r2"}
NoRequests == [hotkey |-> "h1", start |-> NoTake,
               args |-> [r \in Requests |-> [origin |-> NoneOrigin, take |-> 0]]]

\* no request is executed step by step
StepsIdle ==
  /\ submitted = NoRequests
  /\ pc = [r \in Requests |-> "done"]
  /\ cur = [r \in Requests |-> NoTake]
  /\ res = [r \in Requests |-> "pending"]
  /\ running = "idle"

Init ==
  /\ StepsIdle
  /\ Delegates = [h \in Hotkeys |-> NoTake]
  /\ MinTake \in TakeValues
  \* up to renaming of the accounts: h1 is registered and owned by c1, and h2
  \* is owned by the same coldkey, by another one, or is not registered
  /\ Owner \in {f \in [Hotkeys -> Coldkeys \cup {NoOwner}] : f["h1"] = "c1"}
  /\ events = <<>>
  /\ writes = 0
  /\ oks = 0
  /\ calls = 0
  /\ last = NoOp

\* lines 40-81: one dispatch of do_decrease_take
do_decrease_take(origin, hotkey, take) ==
  /\ calls < MaxCalls
  /\ LET out == Outcome(origin, hotkey, take) IN
       /\ Delegates' = insert(Delegates, StorageWrites(out, hotkey, take))
       /\ writes' = writes + Len(StorageWrites(out, hotkey, take))
       /\ events' = events \o deposit_event(out, origin, hotkey, take)
       /\ oks' = IF out.result = Ok THEN oks + 1 ELSE oks
       /\ last' = [op |-> "decrease_take", origin |-> origin, hotkey |-> hotkey,
                   take |-> take, before |-> Delegates[hotkey],
                   result |-> out.result, check |-> out.check,
                   repeats |-> RepeatOf(origin, hotkey, take)]
  /\ calls' = calls + 1
  /\ UNCHANGED <<MinTake, Owner>>
  /\ UNCHANGED stepvars

\* external reconfiguration of the MinTake storage value
set_min_take(min) ==
  /\ min # MinTake
  /\ MinTake' = min
  /\ last' = [NoOp EXCEPT !.op = "set_min_take"]
  /\ UNCHANGED <<Delegates, Owner, events, writes, oks, calls>>
  /\ UNCHANGED stepvars

DecreaseTake == \E origin \in Origins, hotkey \in Hotkeys, take \in TakeValues :
                  do_decrease_take(origin, hotkey, take)
SetMinTake == \E min \in TakeValues : set_min_take(min)

Next == DecreaseTake \/ SetMinTake

Spec == Init /\ [][Next]_vars

\* the dispatches alone, with the MinTake storage value never reconfigured
NextFixedMin == DecreaseTake

SpecFixedMin == Init /\ [][NextFixedMin]_vars

(* ---------------- do_decrease_take statement by statement ---------------- *)
\* lines 59-65 on the locals of one request: the decrease check against the
\* current_take it read, then the floor check against min_take
validate(current_take, min_take, take) ==
  IF current_take # NoTake /\ ~(take < current_take) THEN NotDecreasingError
  ELSE IF ~(take >= min_take) THEN BelowMinimumError
  ELSE Ok

\* lines 46-56 for a request: the signature, then the Authorization Check
authorize(origin, hotkey) ==
  IF ensure_signed(origin) # Ok THEN ensure_signed(origin)
  ELSE do_take_checks(origin, hotkey)

\* the request returns with result e
Return(r, e) ==
  /\ res' = [res EXCEPT ![r] = e]
  /\ pc' = [pc EXCEPT ![r] = "done"]
  /\ running' = "idle"

\* mutant: the ledger starts a request while another one is executing
Admit_unserialized(r) ==
  /\ pc[r] = "submitted"
  /\ pc' = [pc EXCEPT ![r] = "authorize"]
  /\ running' = r
  /\ UNCHANGED <<Delegates, MinTake, Owner, events, writes, oks, calls, last,
                 submitted, cur, res>>

\* the ledger applies one request at a time: it starts a submitted request
\* only when no request is executing
Admit(r) ==
  /\ running = "idle"
  /\ pc[r] = "submitted"
  /\ pc' = [pc EXCEPT ![r] = "authorize"]
  /\ running' = r
  /\ UNCHANGED <<Delegates, MinTake, Owner, events, writes, oks, calls, last,
                 submitted, cur, res>>

\* lines 46-56
StepAuthorize(r) ==
  /\ pc[r] = "authorize"
  /\ LET e == authorize(submitted.args[r].origin, submitted.hotkey) IN
       IF e # Ok THEN Return(r, e)
       ELSE pc' = [pc EXCEPT ![r] = "read"] /\ UNCHANGED <<res, running>>
  /\ UNCHANGED <<Delegates, MinTake, Owner, events, writes, oks, calls, last,
                 submitted, cur>>

\* line 59: Delegates::try_get(&hotkey)
StepRead(r) ==
  /\ pc[r] = "read"
  /\ cur' = [cur EXCEPT ![r] = Delegates[submitted.hotkey]]
  /\ pc' = [pc EXCEPT ![r] = "validate"]
  /\ UNCHANGED <<Delegates, MinTake, Owner, events, writes, oks, calls, last,
                 submitted, res, running>>

\* lines 60-65
StepValidate(r) ==
  /\ pc[r] = "validate"
  /\ LET e == validate(cur[r], MinTake, submitted.args[r].take) IN
       IF e # Ok THEN Return(r, e)
       ELSE pc' = [pc EXCEPT ![r] = "write"] /\ UNCHANGED <<res, running>>
  /\ UNCHANGED <<Delegates, MinTake, Owner, events, writes, oks, calls, last,
                 submitted, cur>>

\* line 68
StepWrite(r) ==
  /\ pc[r] = "write"
  /\ Delegates' = insert(Delegates, <<[key |-> submitted.hotkey,
                                       value |-> submitted.args[r].take]>>)
  /\ writes' = writes + 1
  /\ pc' = [pc EXCEPT ![r] = "notify"]
  /\ UNCHANGED <<MinTake, Owner, events, oks, calls, last,
                 submitted, cur, res, running>>

\* lines 77-80
StepNotify(r) ==
  /\ pc[r] = "notify"
  /\ events' = Append(events, [coldkey |-> submitted.args[r].origin,
                               hotkey |-> submitted.hotkey,
                               take |-> submitted.args[r].take])
  /\ Return(r, Ok)
  /\ UNCHANGED <<Delegates, MinTake, Owner, writes, oks, calls, last,
                 submitted, cur>>

\* two requests for one hotkey are submitted together, in a state the
\* dispatches and reconfigurations can reach: any record, any MinTake
InitSteps ==
  /\ MinTake \in TakeValues
  /\ Owner = [h \in Hotkeys |-> IF h = "h1" THEN "c1" ELSE NoOwner]
  /\ \E h \in Hotkeys, t \in TakeValues \cup {NoTake} :
       /\ Owner[h] = NoOwner => t = NoTake
       /\ Delegates = [k \in Hotkeys |-> IF k = h THEN t ELSE NoTake]
       /\ \E a \in [Requests -> [origin : Origins, take : TakeValues]] :
            submitted = [hotkey |-> h, start |-> t, args |-> a]
  /\ pc = [r \in Requests |-> "submitted"]
  /\ cur = [r \in Requests |-> NoTake]
  /\ res = [r \in Requests |-> "pending"]
  /\ running = "idle"
  /\ events = <<>>
  /\ writes = 0
  /\ oks = 0
  /\ calls = 0
  /\ last = NoOp

NextSteps ==
  \E r \in Requests :
     \/ Admit(r)
     \/ StepAuthorize(r)
     \/ StepRead(r)
     \/ StepValidate(r)
     \/ StepWrite(r)
     \/ StepNotify(r)

SpecSteps == InitSteps /\ [][NextSteps]_vars

TypeOK ==
  /\ Delegates \in [Hotkeys -> TakeValues \cup {NoTake}]
  /\ MinTake \in TakeValues
  /\ Owner \in [Hotkeys -> Coldkeys \cup {NoOwner}]
  /\ calls \in 0..MaxCalls
  /\ writes \in 0..MaxCalls
  /\ oks \in 0..MaxCalls

(* ---------------- helpers of the properties ---------------- *)
IsCall == last.op = "decrease_take"
\* the step is a dispatch of do_decrease_take
CallStep == calls' = calls + 1
HasRecord(h) == Delegates[h] # NoTake
\* the result of the Authorization Check on the arguments of the last call
\* (Owner never changes, so it is the result the call saw)
AuthResult == do_take_checks(last.origin, last.hotkey)
\* the Authorization Check passes for the last call
Authorized == last.origin \in Coldkeys /\ AuthResult = Ok
FloorHolds == \A h \in Hotkeys : HasRecord(h) => Delegates[h] >= MinTake
\* the events deposited for hotkey h, oldest first
EventsOf(h) == SelectSeq(events, LAMBDA e : e.hotkey = h)

(* ---------------- C1 ---------------- *)
\* C1: after every successful decrease_take the take stored for the hotkey
\* is >= the MinTake read during the call, whether or not a record existed.
C1_FloorPostcondition ==
  (IsCall /\ last.result = Ok) =>
     /\ HasRecord(last.hotkey)
     /\ Delegates[last.hotkey] >= MinTake

C1_Witness ==
  /\ IsCall /\ last.result = Ok /\ last.before # NoTake
  /\ Delegates[last.hotkey] = MinTake /\ MinTake > 0

(* ---------------- C2 ---------------- *)
\* C2: in every decrease_take step on a hotkey that has a record with take t,
\* the take t' afterwards is < t when the call succeeded and = t when it was
\* rejected; the take of an existing record never increases in any step.
C2_MonotonicDecrease ==
  [][ /\ CallStep =>
           LET h == last'.hotkey IN
           HasRecord(h) =>
              IF last'.result = Ok THEN Delegates'[h] < Delegates[h]
                                   ELSE Delegates'[h] = Delegates[h]
      /\ \A h \in Hotkeys :
           HasRecord(h) => Delegates'[h] # NoTake /\ Delegates'[h] <= Delegates[h]
    ]_vars

C2_Witness ==
  /\ IsCall /\ last.result = Ok
  /\ last.before # NoTake /\ Delegates[last.hotkey] < last.before

(* ---------------- C3 ---------------- *)
\* C3: a decrease_take call that returns an error leaves the whole Delegates
\* map unchanged, performs no storage write and deposits no event.
C3_NoPartialEffect ==
  [][ (CallStep /\ last'.result # Ok) =>
        /\ Delegates' = Delegates
        /\ writes' = writes
        /\ events' = events ]_vars

C3_Witness ==
  /\ IsCall /\ last.result = BelowMinimumError /\ last.check = "floor_check"
  /\ last.before # NoTake /\ Delegates[last.hotkey] = last.before
  /\ events # <<>>

(* ---------------- C4 ---------------- *)
\* C4: the checks run in the order authorization, strict decrease, floor and
\* the error of the first failing check is returned: an authorization failure
\* is reported for every requested take, and a request that is both not
\* strictly decreasing and below the minimum fails at the decrease check.
C4_CheckPrecedence ==
  (IsCall /\ last.origin \in Coldkeys) =>
     /\ AuthResult # Ok =>
          /\ last.result = AuthResult /\ last.check = "do_take_checks"
          /\ last.result \in {NotRegistered, NonAssociatedColdKey}
     /\ (Authorized /\ last.before # NoTake /\ last.take >= last.before) =>
          last.result = NotDecreasingError /\ last.check = "decrease_check"
     /\ (/\ Authorized
         /\ last.before = NoTake \/ last.take < last.before
         /\ last.take < MinTake) =>
          last.result = BelowMinimumError /\ last.check = "floor_check"

C4_Witness ==
  /\ IsCall /\ Authorized
  /\ last.before # NoTake /\ last.take >= last.before /\ last.take < MinTake
  /\ last.result = NotDecreasingError /\ last.check = "decrease_check"

(* ---------------- C5 ---------------- *)
\* C5: a request rejected by the floor check is reported with an error kind
\* different from the one of a request rejected by the strict-decrease check,
\* so the returned error tells which of the two validations failed.
C5_DistinguishableErrorKinds ==
  IsCall =>
     /\ last.check = "floor_check" => last.result # NotDecreasingError
     /\ last.check = "decrease_check" => last.result # BelowMinimumError

(* ---------------- C6 ---------------- *)
\* C6 (as claimed): in every state reachable by decrease_take calls and
\* reconfigurations of MinTake, every existing record has take >= MinTake.
C6_GlobalFloorInvariant == FloorHolds

\* C6 (amended): every step that does not raise MinTake -- any decrease_take
\* call, and any reconfiguration to a lower value -- preserves "every existing
\* record has take >= MinTake"; only raising MinTake can break it.
C6_FloorPreservedUnlessRaised ==
  [][ (FloorHolds /\ MinTake' <= MinTake) => FloorHolds' ]_vars

C6_Witness ==
  /\ last.op = "set_min_take" /\ oks >= 2
  /\ \A h \in Hotkeys : HasRecord(h) /\ Delegates[h] > MinTake

C8_SuccessEffects ==
  /\ [](/\ Len(events) = oks
        /\ \A h \in Hotkeys :
             EventsOf(h) # <<>> =>
               EventsOf(h)[Len(EventsOf(h))].take = Delegates[h])
  /\ [][ (CallStep /\ last'.result = Ok) =>
           /\ writes' = writes + 1
           /\ Delegates' = [Delegates EXCEPT ![last'.hotkey] = last'.take]
           /\ events' = Append(events, [coldkey |-> last'.origin,
                                        hotkey |-> last'.hotkey,
                                        take |-> last'.take]) ]_vars

C8_Witness ==
  /\ IsCall /\ last.result = Ok /\ last.before # NoTake
  /\ Len(events) = 2 /\ Len(EventsOf(last.hotkey)) = 2
  /\ events[2].take = Delegates[last.hotkey]

(* ---------------- C9 ---------------- *)
\* C9: when a rejected request is repeated with the same arguments and the
\* external state has not changed, it is rejected again at the same check
\* with the same error kind, and the resulting state is the same.
C9_DeterministicRejection ==
  [][ (/\ IsCall /\ last.result # Ok
       /\ CallStep
       /\ last'.origin = last.origin
       /\ last'.hotkey = last.hotkey
       /\ last'.take = last.take) =>
        /\ last'.result = last.result
        /\ last'.check = last.check
        /\ Delegates' = Delegates
        /\ events' = events
        /\ writes' = writes ]_vars

C9_Witness ==
  /\ IsCall /\ last.repeats = DelegateTakeTooLow
  /\ last.result = DelegateTakeTooLow /\ last.check = "floor_check"
  /\ last.before # NoTake

(* ---------------- C10 ---------------- *)
\* C10: after any successful decrease_take the stored take is within
\* min ..= InitialDefaultTake, so it is <= InitialDefaultTake.
C10_UpperBound ==
  (IsCall /\ last.result = Ok) => Delegates[last.hotkey] <= InitialDefaultTake

(* ---------------- C11 ---------------- *)
\* C11: a request repeated right after itself leaves Delegates as the first
\* invocation left it; when the first invocation succeeded, the second is
\* rejected by the strict-decrease check and deposits no second event.
C11_IdempotentRepeat ==
  [][ (/\ IsCall /\ CallStep
       /\ last'.origin = last.origin
       /\ last'.hotkey = last.hotkey
       /\ last'.take = last.take) =>
        /\ Delegates' = Delegates
        /\ last.result = Ok =>
             /\ last'.result = NotDecreasingError
             /\ last'.check = "decrease_check"
             /\ events' = events ]_vars

C11_Witness ==
  /\ IsCall /\ last.repeats = Ok
  /\ last.result = NotDecreasingError /\ last.check = "decrease_check"
  /\ Delegates[last.hotkey] = last.take /\ Len(events) = 1

(* ---------------- C12 ---------------- *)
\* C12: a hotkey that has a record has one in every later state: no step
\* (successful or rejected call on any hotkey) removes a record.
C12_RecordsNeverDeleted ==
  [][ \A h \in Hotkeys : HasRecord(h) => Delegates'[h] # NoTake ]_vars

C12_Witness ==
  /\ IsCall /\ last.result = Ok /\ last.before # NoTake /\ last.take = 0
  /\ \A h \in Hotkeys : HasRecord(h)

(* ---------------- C13 ---------------- *)
\* C13: a successful call changes only the record of its hotkey: the records
\* (and absences) of all other hotkeys, MinTake and the ownership facts are
\* unchanged.
C13_FrameOfSuccess ==
  [][ (CallStep /\ last'.result = Ok) =>
        /\ \A h \in Hotkeys \ {last'.hotkey} : Delegates'[h] = Delegates[h]
        /\ MinTake' = MinTake
        /\ Owner' = Owner ]_vars

C13_Witness ==
  /\ IsCall /\ last.result = Ok
  /\ \E h \in Hotkeys \ {last.hotkey} :
       /\ Owner[h] = Owner[last.hotkey]
       /\ HasRecord(h) /\ Delegates[h] > last.take

(* ---------------- C15 ---------------- *)
\* C15: with MinTake fixed at m, a hotkey whose record holds t admits at most
\* t - m further successful calls, and none when t = m: every event of a
\* hotkey carrying take t is followed by at most t - m later events of it.
C15_BoundedSuccesses ==
  \A h \in Hotkeys :
     LET es == EventsOf(h) IN
     \A i \in 1..Len(es) :
        /\ Len(es) - i <= es[i].take - MinTake
        /\ es[i].take = MinTake => Len(es) = i

C15_Witness ==
  \E h \in Hotkeys :
     /\ Len(EventsOf(h)) = 3
     /\ EventsOf(h)[1].take = MinTake + 2
     /\ Delegates[h] = MinTake

(* ---------------- C16 ---------------- *)
\* take v is accepted for a hotkey whose record is s (NoTake: no record)
ValidFrom(s, v) == v >= MinTake /\ (s = NoTake \/ v < s)
\* the smallest of a, b that is valid from s, or s when neither is
SmallestValid(s, a, b) ==
  LET vs == {v \in {a, b} : ValidFrom(s, v)} IN
  IF vs = {} THEN s ELSE CHOOSE v \in vs : \A w \in vs : v <= w
\* the check at which the call failed is not the signature or authorization
PassedAuth(l) == l.check \notin {"ensure_signed", "do_take_checks"}

\* C16: for a fixed MinTake, two authorized requests with takes a and b on
\* the same hotkey, applied one after the other in either order from a state
\* where its record is s, leave the record at the smallest of a, b that is
\* valid from s, or at s when neither is: the same in both orders.
C16_OrderIndependence ==
  [][ (/\ IsCall /\ CallStep
       /\ last'.hotkey = last.hotkey
       /\ PassedAuth(last) /\ PassedAuth(last')) =>
        Delegates'[last'.hotkey] =
          SmallestValid(last.before, last.take, last'.take) ]_vars

C16_Witness ==
  /\ IsCall /\ calls = 2 /\ oks = 1 /\ PassedAuth(last)
  /\ last.before # NoTake /\ last.take > last.before
  /\ last.result = NotDecreasingError
  /\ Delegates[last.hotkey] = last.before

(* ---------------- C14 ---------------- *)
\* one request applied as a whole to a hotkey whose record is t:
\* the record afterwards and the result
Applied(t, r) ==
  LET a == submitted.args[r]
      e == IF authorize(a.origin, submitted.hotkey) # Ok
             THEN authorize(a.origin, submitted.hotkey)
             ELSE validate(t, MinTake, a.take)
  IN [take |-> IF e = Ok THEN a.take ELSE t, result |-> e]

\* the record and the two results when request x runs wholly before request y
Sequential(x, y) ==
  LET first == Applied(submitted.start, x)
      second == Applied(first.take, y)
  IN [take |-> second.take, results |-> [r \in Requests |->
                                IF r = x THEN first.result ELSE second.result]]

\* the request is between its first and its last statement
Executing(r) == pc[r] \notin {"submitted", "done"}

\* C14: with the statements of two same-hotkey requests as separate steps,
\* the ledger never has both requests in execution, no request validates or
\* writes on a current take that has since been overwritten, and when both
\* have returned the record and the results are those of one of the two
\* sequential orders.
C14_SerializedExecution ==
  /\ ~(Executing("r1") /\ Executing("r2"))
  /\ \A r \in Requests :
       pc[r] \in {"validate", "write"} => cur[r] = Delegates[submitted.hotkey]
  /\ (\A r \in Requests : pc[r] = "done" /\ res[r] # "pending") =>
       \E x \in Requests : \E y \in Requests \ {x} :
          /\ Delegates[submitted.hotkey] = Sequential(x, y).take
          /\ res = Sequential(x, y).results

C14_Witness ==
  /\ pc["r1"] = "done" /\ pc["r2"] = "done"
  /\ res["r1"] = NotDecreasingError /\ res["r2"] = Ok
  /\ submitted.start # NoTake
  /\ submitted.args["r1"].take > submitted.args["r2"].take
  /\ submitted.args["r1"].take < submitted.start
  /\ submitted.args["r1"].take >= MinTake
  /\ Delegates[submitted.hotkey] = submitted.args["r2"].take
====
